---- MODULE Spec2Model ----
(***************************************************************************)
(* A state-machine model of retryflow.Retry (retry.go): the checkpoint-    *)
(* aware retry loop over a pipeline of type-erased steps, together with    *)
(* the step constructors (Exec/Chain/Do), the option defaults and          *)
(* validation, error wrapping/unwrapping, error classification and the     *)
(* built-in backoff strategies.  Durations are in milliseconds.            *)
(***************************************************************************)
EXTENDS Integers, Sequences, FiniteSets, TLC

(***************************************************************************)
(* Bounds of the model.                                                    *)
(***************************************************************************)
\* longest pipeline explored
MaxSteps == 2
\* largest finite maxRetries explored
MaxRetriesBound == 2
\* largest per-class limit explored
MaxLimit == 1
\* Go ints that can grow without bound (attempt and occurrence counters,
\* and the observation counters of the model) saturate here; every value the
\* code compares them with is smaller.
CountCap == 4

(***************************************************************************)
(* Program constants.                                                      *)
(***************************************************************************)
DefaultInitialBackoff == 500
DefaultMaxBackoff == 30000
DefaultJitter == 200
DefaultMaxRetries == 5
DefaultMaxElapsedTime == 300000
\* the literal 500ms of the built-in strategies
StrategySeed == 500
\* the floor applied to a jittered sleep
MinSleep == 10

Min(a, b) == IF a < b THEN a ELSE b
Max(a, b) == IF a > b THEN a ELSE b
Sat(n) == Min(n, CountCap)

(***************************************************************************)
(* Values of type `any`.  t is the dynamic type ("nil" for the nil         *)
(* interface), v the payload.                                              *)
(***************************************************************************)
Nil == [t |-> "nil", v |-> 0]
IntV(n) == [t |-> "int", v |-> n]
StrV(n) == [t |-> "string", v |-> n]
\* the zero value of a declared type, as `*new(T)` / a failed assertion gives
Zero(T) == IF T = "int" THEN IntV(0) ELSE IF T = "string" THEN StrV(0) ELSE Nil
\* the value a failing function hands back beside its error
Poison(T) == IF T = "int" THEN IntV(99) ELSE IF T = "string" THEN StrV(99) ELSE StrV(99)
\* what a function of result type T may return on success
OutValues(T) ==
    IF T = "int" THEN {IntV(1), IntV(2)}
    ELSE IF T = "string" THEN {StrV(1)}
    ELSE {Nil, IntV(1), StrV(1)}
\* reflect.Type.AssignableTo for the value types of the model
AssignableTo(T, target) == target = "any" \/ T = target

(***************************************************************************)
(* Errors.  An error is a record; chain is the cause chain of a plain      *)
(* error, outermost first, its last element the root cause.                *)
(***************************************************************************)
NilErr == [kind |-> "nil", Attempt |-> 0, Step |-> 0, chain |-> <<>>]
Plain(chain) == [kind |-> "plain", Attempt |-> 0, Step |-> 0, chain |-> chain]
AttemptError(attempt, step, e) ==
    [kind |-> "AttemptError", Attempt |-> attempt, Step |-> step, chain |-> e.chain]
ConfigErr(msg) == [kind |-> "config", Attempt |-> 0, Step |-> 0, chain |-> <<msg>>]
CtxCanceled == [kind |-> "ctx", Attempt |-> 0, Step |-> 0, chain |-> <<"context canceled">>]
OutputPtrErr == Plain(<<"outputPtr must be a non-nil pointer">>)
OutputMismatchErr == Plain(<<"output type mismatch">>)
\* reflect.Value.Set on the zero Value panics; the panic leaves Retry
SetPanic == [kind |-> "panic", Attempt |-> 0, Step |-> 0, chain |-> <<"reflect.Value.Set on zero Value">>]
\* the error Chain's wrapper returns for a wrong input type
InputMismatch == Plain(<<"mismatch">>)
\* errors a caller-supplied function may return
BizErrors == {Plain(<<"e1">>), Plain(<<"wrap", "e2">>)}
Roots == {"e1", "e2", "mismatch"}

\* errors.Unwrap
Unwrap(e) ==
    IF e.kind = "AttemptError" THEN Plain(e.chain)
    ELSE IF e.kind = "plain" /\ Len(e.chain) > 1 THEN Plain(Tail(e.chain))
    ELSE NilErr

RECURSIVE fullUnwrap(_)
fullUnwrap(e) ==
    LET u == Unwrap(e) IN IF u = NilErr THEN e ELSE fullUnwrap(u)

\* the root cause as a name
RootOf(e) == fullUnwrap(e).chain[1]

(***************************************************************************)
(* Error classes.  "e2" implements Classifier and reports ClassAuth; "e1"  *)
(* and Chain's mismatch error are *errors.errorString values.              *)
(***************************************************************************)
ClassAuth == "auth"
Classes == {"auth", "*errors.errorstring"}
NewErrorClass(root) == IF root = "e2" THEN ClassAuth ELSE "*errors.errorstring"

(***************************************************************************)
(* Backoff strategies.                                                     *)
(***************************************************************************)
ExponentialBackoff(attempt, prev) == IF prev = 0 THEN StrategySeed ELSE prev * 2

\* a constant strategy that ignores the delay it is handed
ConstantBackoffSeed(attempt, prev) == StrategySeed
ConstantBackoff(attempt, prev) == IF prev = 0 THEN StrategySeed ELSE prev

RECURSIVE FibLoop(_, _, _, _)
FibLoop(k, attempt, a, b) ==
    IF k <= attempt THEN FibLoop(k + 1, attempt, b, a + b) ELSE b

FibonacciBackoff(attempt, prev) ==
    IF attempt <= 1 THEN StrategySeed ELSE FibLoop(3, attempt, 1, 1) * StrategySeed

Strategies == {"Exponential", "Constant", "Fibonacci"}
backoffStrategy(name, attempt, prev) ==
    IF name = "Exponential" THEN ExponentialBackoff(attempt, prev)
    ELSE IF name = "Constant" THEN ConstantBackoff(attempt, prev)
    ELSE FibonacciBackoff(attempt, prev)

\* the values rand.Int63n(2*jitter) is drawn from: both ends and the middle
JitterDraws(jitter) == {0, jitter, 2 * jitter - 1}

(***************************************************************************)
(* Options.                                                                *)
(***************************************************************************)
NoLimits == [c \in {} |-> 0]
defaultOptions ==
    [initialBackoff |-> DefaultInitialBackoff,
     maxBackoff |-> DefaultMaxBackoff,
     jitter |-> DefaultJitter,
     maxRetries |-> DefaultMaxRetries,
     maxElapsedTime |-> DefaultMaxElapsedTime,
     onRetry |-> FALSE,
     onAttemptStart |-> FALSE,
     onStepSuccess |-> FALSE,
     backoffStrategy |-> "Exponential",
     retryable |-> Roots,
     perErrorLimits |-> NoLimits,
     rateLimiter |-> FALSE,
     resetErrorLimitOnCheckpoint |-> TRUE]

WithInitialBackoff(op, d) == [op EXCEPT !.initialBackoff = d]
WithMaxBackoff(op, d) == [op EXCEPT !.maxBackoff = d]
WithJitter(op, d) == [op EXCEPT !.jitter = d]
WithMaxRetries(op, n) == [op EXCEPT !.maxRetries = n]
WithMaxElapsedTime(op, d) == [op EXCEPT !.maxElapsedTime = d]
WithHooks(op, b) == [op EXCEPT !.onRetry = b, !.onAttemptStart = b, !.onStepSuccess = b]
WithBackoffStrategy(op, f) == [op EXCEPT !.backoffStrategy = f]
WithRetryable(op, f) == [op EXCEPT !.retryable = f]
WithPerErrorLimits(op, limits) == [op EXCEPT !.perErrorLimits = limits]
WithRateLimiter(op, b) == [op EXCEPT !.rateLimiter = b]
WithResetErrorLimitOnCheckpoint(op, b) == [op EXCEPT !.resetErrorLimitOnCheckpoint = b]

\* a validation without the check on unbounded retrying
ValidateNoCeilingCheck(op) ==
    IF op.initialBackoff <= 0 THEN <<"initialBackoff must be positive">>
    ELSE IF op.maxBackoff < op.initialBackoff THEN <<"maxBackoff must be >= initialBackoff">>
    ELSE IF op.jitter < 0 THEN <<"jitter must be non-negative">>
    ELSE <<>>
\* the validation of Retry: the message of the first failing check, or <<>>
Validate(op) ==
    IF op.initialBackoff <= 0 THEN <<"initialBackoff must be positive">>
    ELSE IF op.maxBackoff < op.initialBackoff THEN <<"maxBackoff must be >= initialBackoff">>
    ELSE IF op.jitter < 0 THEN <<"jitter must be non-negative">>
    ELSE IF op.maxRetries < 0 /\ op.maxElapsedTime = 0
         THEN <<"infinite retry without maxElapsedTime is dangerous">>
    ELSE <<>>

(***************************************************************************)
(* Steps.                                                                  *)
(***************************************************************************)
\* Exec(fn): no input, no output
Exec == [kind |-> "Exec", in |-> "any", out |-> "any", ptr |-> "none",
         checkpoint |-> FALSE, onFail |-> FALSE]
\* Chain[In, Out](fn)
Chain(In, Out) == [kind |-> "Chain", in |-> In, out |-> Out, ptr |-> "none",
                   checkpoint |-> FALSE, onFail |-> FALSE]
\* s.Do(ptr): ptr is the element type of the target, or "bad" for a value
\* that is not a non-nil pointer
Do(s, ptr) == [s EXCEPT !.ptr = ptr]
Checkpoint(s) == [s EXCEPT !.checkpoint = TRUE]
OnFail(s) == [s EXCEPT !.onFail = TRUE]

\* step.run(ctx, input) for the result res = [out, err] the caller's function
\* gives when it is called: called tells whether it was called at all
Run(step, input, res) ==
    IF step.kind = "Exec"
    THEN [out |-> Nil, err |-> res.err, called |-> TRUE, arg |-> Nil]
    ELSE LET ok == input # Nil /\ AssignableTo(input.t, step.in)
         IN IF ~ok /\ input # Nil
            THEN [out |-> Nil, err |-> InputMismatch, called |-> FALSE, arg |-> Nil]
            ELSE [out |-> res.out, err |-> res.err, called |-> TRUE,
                  arg |-> IF ok THEN input ELSE Zero(step.in)]

\* what the caller's function of a step may do when called
FnResults(step) ==
    {[out |-> v, err |-> NilErr] :
        v \in (IF step.kind = "Exec" THEN {Nil} ELSE OutValues(step.out))}
    \cup {[out |-> Poison(step.out), err |-> e] : e \in BizErrors}

(***************************************************************************)
(* State.                                                                  *)
(***************************************************************************)
VARIABLES
    steps,                  \* the pipeline handed to Retry
    o,                      \* the effective options
    ctxErr,                 \* ctx.Err(): NilErr until the context is cancelled
    elapsed,                \* time.Since(start), in ms
    pc,                     \* where Retry is
    checkpoint,
    currentAttempt,
    currentBackoff,
    perErrorCounts,
    prevOutput,
    lastCheckpointOutput,
    i,                      \* index of the inner walk, 0-based
    err,                    \* the wrapped error of the failed walk
    next,                   \* the clamped delay computed for the coming sleep
    sleep,                  \* the duration handed to time.After
    ret,                    \* what Retry returned, once pc = "done"
    target,                 \* the variables bound with Do, by step
    ev,                     \* the last thing Retry did
    obs                     \* what the callbacks and collaborators observed

vars == <<steps, o, ctxErr, elapsed, pc, checkpoint, currentAttempt, currentBackoff,
          perErrorCounts, prevOutput, lastCheckpointOutput, i, err, next, sleep, ret,
          target, ev, obs>>

loopVars == <<checkpoint, currentAttempt, currentBackoff, perErrorCounts, prevOutput,
              lastCheckpointOutput, i, err, next, sleep>>

StepIdx == 1..Len(steps)
ZeroCounts == [c \in Classes |-> 0]

\* an event: seq flips at every event, so that two equal events in a row differ
Event(kind, step, input, out) ==
    [seq |-> 1 - ev.seq, kind |-> kind, step |-> step, input |-> input, out |-> out]
Did(kind) == Event(kind, 0, Nil, Nil)

\* time.Since(start) is only ever compared with maxElapsedTime: values at or
\* above it are kept as maxElapsedTime
Advance(t, d) == IF o.maxElapsedTime > 0 THEN Min(t + d, o.maxElapsedTime) ELSE 0

Finish(e) ==
    /\ pc' = "done"
    /\ ret' = e

(***************************************************************************)
(* The inputs explored.                                                    *)
(***************************************************************************)
\* how long a caller's function may take
StepDurations == {0, StrategySeed}

InitObs(n) ==
    [runCount |-> [k \in 1..n |-> 0],       \* calls of step.run
     fnCount |-> [k \in 1..n |-> 0],        \* calls of the caller's function
     okCount |-> [k \in 1..n |-> 0],        \* step.run returned a nil error
     failCount |-> [k \in 1..n |-> 0],      \* step.run returned an error
     outAt |-> [k \in 1..n |-> Nil],        \* output of the last successful run
     lastRunOk |-> [k \in 1..n |-> FALSE],  \* the latest run returned a nil error
     nOnFail |-> 0,
     nAttemptStart |-> 0, lastAttemptStart |-> 0,
     nStepSuccess |-> 0,
     lastStepSuccess |-> [step |-> 0, out |-> Nil],   \* arguments of the last onStepSuccess
     nRetry |-> 0, lastRetry |-> NilErr,
     nWait |-> 0,                           \* rateLimiter.Wait calls
     nSleep |-> 0,
     askedRetryable |-> {},                 \* root causes handed to o.retryable
     classified |-> {},                     \* root causes handed to o.errorClassifier
     failsSince |-> ZeroCounts,             \* failed runs by class since the counters were reset
     cancelledFail |-> FALSE]               \* a run cancelled ctx and returned an error

InitWith(p, op) ==
    /\ steps = p
    /\ o = op
    /\ ctxErr = NilErr
    /\ elapsed = 0
    /\ pc = "start"
    /\ checkpoint = 0
    /\ currentAttempt = 0
    /\ currentBackoff = 0
    /\ perErrorCounts = ZeroCounts
    /\ prevOutput = Nil
    /\ lastCheckpointOutput = Nil
    /\ i = 0
    /\ err = NilErr
    /\ next = 0
    /\ sleep = 0
    /\ ret = NilErr
    /\ target = [k \in 1..Len(p) |-> Zero(p[k].ptr)]
    /\ ev = [seq |-> 0, kind |-> "call", step |-> 0, input |-> Nil, out |-> Nil]
    /\ obs = InitObs(Len(p))

(***************************************************************************)
(* Retry, lines 13-48: the empty pipeline, validation, initialisation.     *)
(***************************************************************************)
\* line 14
\* a pipeline that is never taken for empty
IsEmptyNever(p) == FALSE
IsEmpty(p) == Len(p) = 0

Start ==
    /\ pc = "start"
    /\ UNCHANGED <<steps, o, ctxErr, target, obs, prevOutput, i, err, next, sleep>>
    /\ IF IsEmpty(steps)
       THEN /\ Finish(NilErr)
            /\ ev' = Did("empty")
            /\ UNCHANGED <<elapsed, checkpoint, currentAttempt, currentBackoff,
                           perErrorCounts, lastCheckpointOutput>>
       ELSE IF Validate(o) # <<>>
       THEN /\ Finish(ConfigErr(Validate(o)[1]))
            /\ ev' = Did("invalid")
            /\ UNCHANGED <<elapsed, checkpoint, currentAttempt, currentBackoff,
                           perErrorCounts, lastCheckpointOutput>>
       ELSE /\ currentBackoff' = o.initialBackoff
            /\ elapsed' = 0
            /\ checkpoint' = 0
            /\ currentAttempt' = 0
            /\ perErrorCounts' = ZeroCounts
            /\ lastCheckpointOutput' = Nil
            /\ pc' = "attempt"
            /\ ev' = Did("init")
            /\ UNCHANGED ret

(***************************************************************************)
(* Lines 50-66: the head of an attempt.                                    *)
(***************************************************************************)
\* lines 70 and 159: `return ctx.Err()`
\* the cancellation wrapped like a step error
CancelErrorWrapped == AttemptError(currentAttempt, i + 1, ctxErr)
CancelError == ctxErr

\* line 51: the input of the first step of the walk
\* an attempt that keeps the running output of the attempt before
AttemptInputKept == prevOutput
\* an attempt that forgets the output of the checkpoint
AttemptInputNil == Nil
AttemptInput == lastCheckpointOutput
\* line 66
startIdx == checkpoint

BeginAttempt ==
    /\ pc = "attempt"
    /\ UNCHANGED <<steps, o, ctxErr, elapsed, target, checkpoint, currentBackoff,
                   perErrorCounts, lastCheckpointOutput, err, next, sleep>>
    /\ currentAttempt' = Sat(currentAttempt + 1)
    /\ prevOutput' = AttemptInput
    /\ IF o.rateLimiter /\ ctxErr # NilErr
       THEN \* Wait(ctx) returns the context's error
            /\ Finish(ctxErr)
            /\ ev' = Did("waitCancelled")
            /\ obs' = [obs EXCEPT !.nWait = Sat(@ + 1)]
            /\ UNCHANGED i
       ELSE /\ obs' = [obs EXCEPT
                 !.nWait = IF o.rateLimiter THEN Sat(@ + 1) ELSE @,
                 !.nAttemptStart = IF o.onAttemptStart THEN Sat(@ + 1) ELSE @,
                 !.lastAttemptStart = IF o.onAttemptStart THEN currentAttempt' ELSE @]
            /\ i' = startIdx
            /\ pc' = "walk"
            /\ ev' = Did("attempt")
            /\ UNCHANGED ret

(***************************************************************************)
(* Lines 68-114: one iteration of the inner walk.                          *)
(***************************************************************************)
\* line 80: the failure callback is set
\* a failure callback that is never called
InvokesOnFailNever(step) == FALSE
InvokesOnFail(step) == step.onFail

\* lines 77-84: step.run returned an error
StepFailed(step, r, cancels) ==
    /\ err' = AttemptError(currentAttempt, i + 1, r.err)
    /\ obs' = [obs EXCEPT
          !.runCount[i + 1] = Sat(@ + 1),
          !.fnCount[i + 1] = IF r.called THEN Sat(@ + 1) ELSE @,
          !.failCount[i + 1] = Sat(@ + 1),
          !.lastRunOk[i + 1] = FALSE,
          !.nOnFail = IF InvokesOnFail(step) THEN Sat(@ + 1) ELSE @,
          !.failsSince[NewErrorClass(RootOf(r.err))] = Sat(@ + 1),
          !.cancelledFail = @ \/ cancels]
    /\ pc' = "failed"
    /\ ev' = Event("runFailed", i + 1, prevOutput, r.out)
    /\ UNCHANGED <<checkpoint, currentAttempt, currentBackoff, perErrorCounts,
                   prevOutput, lastCheckpointOutput, i, ret, target>>

\* the observation of a run that returned no error
RunOk(step, r) ==
    [obs EXCEPT
        !.runCount[i + 1] = Sat(@ + 1),
        !.fnCount[i + 1] = IF r.called THEN Sat(@ + 1) ELSE @,
        !.okCount[i + 1] = Sat(@ + 1),
        !.outAt[i + 1] = r.out,
        !.lastRunOk[i + 1] = TRUE]

\* lines 86-97 leave Retry: the error (or panic) the output binding ends with,
\* NilErr when the binding goes through
BindError(step, output) ==
    IF step.ptr = "none" THEN NilErr
    ELSE IF step.ptr = "bad" THEN OutputPtrErr
    ELSE IF output # Nil /\ ~AssignableTo(output.t, step.ptr) THEN OutputMismatchErr
    ELSE IF output = Nil THEN SetPanic
    ELSE NilErr

\* the index the next walk starts at and the counter after a successful step
\* a checkpoint that is never recorded
CheckpointIndexStale(step, idx) == checkpoint
\* a checkpoint recorded at every step
CheckpointIndexEveryStep(step, idx) == idx + 1
CheckpointIndex(step, idx) == IF step.checkpoint THEN idx + 1 ELSE checkpoint
\* a checkpoint that leaves the attempt counter alone
AttemptAfterKept(step) == currentAttempt
AttemptAfter(step) == IF step.checkpoint THEN 0 ELSE currentAttempt

\* lines 110-112: the per-class counters after a successful step
\* a checkpoint that clears the counters whatever the option says
CountsAfterAlwaysReset(step) == IF step.checkpoint THEN ZeroCounts ELSE perErrorCounts
CountsAfter(step) ==
    IF step.checkpoint /\ o.resetErrorLimitOnCheckpoint THEN ZeroCounts ELSE perErrorCounts

\* lines 87 and 96: the bound variables after the binding went through
\* a binding that checks and does not write
TargetAfterUnwritten(step, output) == target
TargetAfter(step, output) ==
    IF step.ptr = "none" THEN target ELSE [target EXCEPT ![i + 1] = output]

\* line 102: what onStepSuccess is handed
\* the hook handed the 0-based index
StepSuccessArgsZeroBased(idx, output) == [step |-> idx, out |-> output]
StepSuccessArgs(idx, output) == [step |-> idx + 1, out |-> output]

\* lines 86-113: step.run returned no error
StepSucceeded(step, r) ==
    IF BindError(step, r.out) # NilErr
    THEN /\ Finish(BindError(step, r.out))
         /\ obs' = RunOk(step, r)
         /\ ev' = Event("runBindFailed", i + 1, prevOutput, r.out)
         /\ UNCHANGED <<checkpoint, currentAttempt, currentBackoff, perErrorCounts,
                        prevOutput, lastCheckpointOutput, i, err, target>>
    ELSE /\ target' = TargetAfter(step, r.out)
         /\ prevOutput' = r.out
         /\ obs' = [RunOk(step, r) EXCEPT
               !.nStepSuccess = IF o.onStepSuccess THEN Sat(@ + 1) ELSE @,
               !.lastStepSuccess = IF o.onStepSuccess THEN StepSuccessArgs(i, r.out) ELSE @,
               !.failsSince = IF step.checkpoint /\ o.resetErrorLimitOnCheckpoint
                              THEN ZeroCounts ELSE @]
         /\ checkpoint' = CheckpointIndex(step, i)
         /\ currentAttempt' = AttemptAfter(step)
         /\ lastCheckpointOutput' = IF step.checkpoint THEN r.out ELSE lastCheckpointOutput
         /\ currentBackoff' = IF step.checkpoint THEN o.initialBackoff ELSE currentBackoff
         /\ perErrorCounts' = CountsAfter(step)
         /\ i' = i + 1
         /\ ev' = Event("runOk", i + 1, prevOutput, r.out)
         /\ UNCHANGED err
         /\ IF i + 1 < Len(steps)
            THEN pc' = pc /\ UNCHANGED ret
            ELSE Finish(NilErr)      \* lines 116-118: the walk ended, nothing failed

RunStep ==
    /\ pc = "walk"
    /\ UNCHANGED <<steps, o, next, sleep>>
    /\ IF ctxErr # NilErr
       THEN \* lines 69-71
            /\ Finish(CancelError)
            /\ ev' = Did("cancelled")
            /\ UNCHANGED <<ctxErr, elapsed, checkpoint, currentAttempt, currentBackoff,
                           perErrorCounts, prevOutput, lastCheckpointOutput, i, err,
                           target, obs>>
       ELSE \E res \in FnResults(steps[i + 1]), cancels \in BOOLEAN, dt \in StepDurations :
               LET step == steps[i + 1]
                   r == Run(step, prevOutput, res)
               IN \* a function that is not called does nothing (one res stands for
                  \* all); a cancellation
                  \* during a run that succeeds is the action Cancel after it
                  /\ ~r.called => (dt = 0 /\ res = CHOOSE x \in FnResults(step) : TRUE)
                  /\ cancels => (r.called /\ res.err # NilErr)
                  /\ ctxErr' = IF cancels THEN CtxCanceled ELSE ctxErr
                  /\ elapsed' = Advance(elapsed, dt)
                  /\ IF r.err # NilErr
                     THEN StepFailed(step, r, cancels)
                     ELSE StepSucceeded(step, r)

(***************************************************************************)
(* Lines 116-154: after a failed walk.                                     *)
(***************************************************************************)
\* line 122
\* a predicate that is never consulted
RetryableAlways(root) == TRUE
Retryable(root) == root \in o.retryable
\* lines 129: the per-class limit is exceeded
\* the limit compared with >= instead of >
LimitExceededAtLimit(key, count) ==
    key \in DOMAIN o.perErrorLimits /\ count >= o.perErrorLimits[key]
LimitExceeded(key, count) ==
    key \in DOMAIN o.perErrorLimits /\ count > o.perErrorLimits[key]
\* line 137
AttemptsExhausted == o.maxRetries >= 0 /\ currentAttempt >= o.maxRetries
\* line 140
\* the ceiling compared with > instead of >=
TimeExhaustedStrict == o.maxElapsedTime > 0 /\ elapsed > o.maxElapsedTime
TimeExhausted == o.maxElapsedTime > 0 /\ elapsed >= o.maxElapsedTime
\* lines 144-145
NextBackoff == Min(backoffStrategy(o.backoffStrategy, currentAttempt, currentBackoff),
                   o.maxBackoff)
\* lines 147-154, for the value d drawn from rand.Int63n
Jittered(n, d) == IF o.jitter > 0 THEN Max(n + (d - o.jitter), MinSleep) ELSE n

HandleFailure ==
    /\ pc = "failed"
    /\ UNCHANGED <<steps, o, ctxErr, elapsed, target, checkpoint, currentAttempt,
                   currentBackoff, prevOutput, lastCheckpointOutput, i, err>>
    /\ LET root == RootOf(err)
           key == NewErrorClass(root)
           counts == [perErrorCounts EXCEPT ![key] = Sat(@ + 1)]
           asked == [obs EXCEPT !.askedRetryable = @ \cup {root}]
           counted == [asked EXCEPT !.classified = @ \cup {root}]
           hooked == [counted EXCEPT
                         !.nRetry = IF o.onRetry THEN Sat(@ + 1) ELSE @,
                         !.lastRetry = IF o.onRetry THEN err ELSE @]
       IN IF ~Retryable(root)
          THEN /\ Finish(err)
               /\ obs' = asked
               /\ ev' = Did("nonRetryable")
               /\ UNCHANGED <<perErrorCounts, next, sleep>>
          ELSE IF LimitExceeded(key, counts[key])
          THEN /\ Finish(err)
               /\ perErrorCounts' = counts
               /\ obs' = counted
               /\ ev' = Did("limitExceeded")
               /\ UNCHANGED <<next, sleep>>
          ELSE IF AttemptsExhausted \/ TimeExhausted
          THEN /\ Finish(err)
               /\ perErrorCounts' = counts
               /\ obs' = hooked
               /\ ev' = Did(IF AttemptsExhausted THEN "attemptsExhausted" ELSE "timeExhausted")
               /\ UNCHANGED <<next, sleep>>
          ELSE \E d \in (IF o.jitter > 0 THEN JitterDraws(o.jitter) ELSE {0}) :
               /\ next' = NextBackoff
               /\ sleep' = Jittered(NextBackoff, d)
               /\ perErrorCounts' = counts
               /\ obs' = hooked
               /\ pc' = "sleep"
               /\ ev' = Did("backoff")
               /\ UNCHANGED ret

(***************************************************************************)
(* Lines 156-162: the backoff sleep, raced against cancellation.           *)
(***************************************************************************)
BackoffSleep ==
    /\ pc = "sleep"
    /\ UNCHANGED <<steps, o, ctxErr, target, checkpoint, currentAttempt, perErrorCounts,
                   prevOutput, lastCheckpointOutput, i, err, next, sleep>>
    \* with both channels ready select picks either; a positive timer is not
    \* ready when the context is already done
    /\ \E timer \in (IF ctxErr = NilErr THEN {TRUE}
                     ELSE IF sleep <= 0 THEN BOOLEAN ELSE {FALSE}) :
          IF timer
          THEN /\ elapsed' = Advance(elapsed, Max(sleep, 0))
               /\ currentBackoff' = next
               /\ obs' = [obs EXCEPT !.nSleep = Sat(@ + 1)]
               /\ pc' = "attempt"
               /\ ev' = Did("slept")
               /\ UNCHANGED ret
          ELSE /\ Finish(CancelError)
               /\ ev' = Did("sleepCancelled")
               /\ UNCHANGED <<elapsed, currentBackoff, obs>>

(***************************************************************************)
(* The context is cancelled by someone else while Retry runs.              *)
(***************************************************************************)
Cancel ==
    \* between a failed run and line 121 nothing reads the context: a
    \* cancellation there is one during the run (RunStep's cancels)
    /\ pc \notin {"failed", "done"}
    /\ ctxErr = NilErr
    /\ ctxErr' = CtxCanceled
    /\ UNCHANGED <<steps, o, elapsed, pc, ret, target, ev, obs>>
    /\ UNCHANGED loopVars

Next == Start \/ BeginAttempt \/ RunStep \/ HandleFailure \/ BackoffSleep \/ Cancel

(***************************************************************************)
(* The pipelines and options explored.                                     *)
(***************************************************************************)
StepShapes ==
    {Do(Chain("any", "int"), "int"),
     Checkpoint(Do(Chain("any", "int"), "int")),
     OnFail(Do(Chain("int", "string"), "string")),
     Checkpoint(Do(Chain("any", "any"), "any")),
     Exec,
     Do(Chain("any", "int"), "string")}

Pipelines == UNION {[1..n -> StepShapes] : n \in 0..MaxSteps}

\* the options every family below starts from: the defaults with no jitter, no
\* elapsed-time ceiling and the hooks set
Base == WithHooks(WithMaxElapsedTime(WithJitter(defaultOptions, 0), 0), TRUE)
AuthLimit(l) == [c \in {ClassAuth} |-> l]

\* attempt and elapsed-time ceilings
CeilingOptions ==
    {WithMaxRetries(Base, r) : r \in 0..MaxRetriesBound}
    \cup {WithMaxElapsedTime(WithMaxRetries(Base, r), 2 * StrategySeed) :
             r \in {-1, MaxRetriesBound}}
    \cup {WithMaxElapsedTime(WithMaxRetries(Base, 1), -1)}
\* per-class limits, with and without the reset at checkpoints
LimitOptions ==
    {WithResetErrorLimitOnCheckpoint(WithPerErrorLimits(
        WithMaxRetries(Base, MaxLimit + 1), AuthLimit(l)), rs) :
        l \in 0..MaxLimit, rs \in BOOLEAN}
\* a predicate that rejects "e2", a rate limiter, no hooks
OtherOptions ==
    {WithRetryable(WithMaxRetries(Base, 2), Roots \ {"e2"}),
     WithRateLimiter(WithHooks(WithMaxRetries(Base, 1), FALSE), TRUE)}
\* options with an offending field: a non-positive initialBackoff, a maxBackoff
\* below initialBackoff, a negative jitter, no ceiling at all
InvalidOptions ==
    {WithRateLimiter(op, rl) :
        op \in {WithInitialBackoff(b, ib) :
                   ib \in {-1, 0}, b \in {Base, WithMaxRetries(Base, -1)}}
               \cup {WithMaxBackoff(Base, MinSleep),
                     WithJitter(Base, -1),
                     WithJitter(WithMaxBackoff(Base, MinSleep), -1),
                     WithMaxRetries(Base, -1)},
        rl \in BOOLEAN}

Options == CeilingOptions \cup LimitOptions \cup OtherOptions \cup InvalidOptions

Init == \E p \in Pipelines, op \in Options : InitWith(p, op)

Spec == Init /\ [][Next]_vars

(***************************************************************************)
(* Termination is checked on single-step pipelines, under every pair of    *)
(* ceilings; Retry itself always takes its next step (the steps, hooks and *)
(* the limiter return, the timer fires), a cancellation may never come.    *)
(***************************************************************************)
LiveOptions ==
    {WithMaxElapsedTime(WithMaxRetries(Base, r), t) :
        r \in {-1, 0, 1}, t \in {-1, 0, 2 * StrategySeed}}
LiveInit == \E p \in {q \in Pipelines : Len(q) <= 1}, op \in LiveOptions : InitWith(p, op)
Engine == Start \/ BeginAttempt \/ RunStep \/ HandleFailure \/ BackoffSleep
FairSpec == LiveInit /\ [][Next]_vars /\ WF_vars(Engine)

(***************************************************************************)
(* The backoff is checked on a step with and without a checkpoint before   *)
(* it, with attempts enough for every strategy to leave its first value,   *)
(* under each built-in strategy and these <<initialBackoff, maxBackoff,    *)
(* jitter>>: all below the 10ms floor, the defaults, an initialBackoff     *)
(* above the strategies' 500ms, and a maxBackoff that caps the growth.     *)
(***************************************************************************)
BackoffTimings ==
    {<<1, 1, 1>>,
     <<DefaultInitialBackoff, DefaultMaxBackoff, DefaultJitter>>,
     <<4 * StrategySeed, DefaultMaxBackoff, DefaultJitter>>,
     <<StrategySeed, 2 * StrategySeed, 0>>}
BackoffOptions ==
    {WithBackoffStrategy(WithJitter(WithMaxBackoff(WithInitialBackoff(
        WithMaxRetries(Base, MaxRetriesBound + 2), t[1]), t[2]), t[3]), f) :
        t \in BackoffTimings, f \in Strategies}
BackoffPipelines ==
    {<<Exec>>, <<Checkpoint(Do(Chain("any", "int"), "int")), Exec>>}
BackoffInit == \E p \in BackoffPipelines, op \in BackoffOptions : InitWith(p, op)
BackoffSpec == BackoffInit /\ [][Next]_vars

(***************************************************************************)
(* Properties.                                                             *)
(***************************************************************************)
IsRun(e) == e.kind \in {"runOk", "runFailed", "runBindFailed"}
\* Retry did something in this step (Cancel is the caller's doing)
Acted == ev'.seq # ev.seq

\* C1: once a checkpointed step k has succeeded, no later attempt executes any
\* of the steps 1..k, and every execution of step k+1 is handed exactly the
\* output of the one successful execution of step k.
C1_NoRerun ==
    \A k \in StepIdx :
        (steps[k].checkpoint /\ obs.okCount[k] >= 1 /\ Acted /\ IsRun(ev'))
            => ev'.step > k
C1_InputIsCheckpointOutput ==
    \A k \in StepIdx :
        (steps[k].checkpoint /\ IsRun(ev) /\ ev.step = k + 1)
            => (obs.okCount[k] = 1 /\ ev.input = obs.outAt[k])
C1_CheckpointResume == [][C1_NoRerun]_vars /\ []C1_InputIsCheckpointOutput
\* step 2 runs a second time, after the checkpointed step 1 returned 2
C1_Witness ==
    /\ Len(steps) = 2 /\ steps[1].checkpoint
    /\ IsRun(ev) /\ ev.step = 2 /\ obs.runCount[2] >= 2
    /\ obs.runCount[1] = 1 /\ ev.input = IntV(2)

\* C2: with maxRetries = N >= 1, every error retryable, no per-class limit and
\* no elapsed-time ceiling, a step that fails at every execution (all others
\* succeeding) has been executed exactly N times when Retry returns its
\* error, wherever the step stands in the pipeline.
C2_ExactlyN ==
    (/\ pc = "done" /\ ret.kind = "AttemptError"
     /\ o.maxRetries >= 1 /\ o.retryable = Roots
     /\ DOMAIN o.perErrorLimits = {} /\ o.maxElapsedTime = 0
     /\ ctxErr = NilErr
     /\ obs.okCount[ret.Step] = 0
     /\ \A j \in StepIdx \ {ret.Step} : obs.failCount[j] = 0)
        => obs.runCount[ret.Step] = o.maxRetries

\* C3: when a step cancels the context while it runs and returns an error,
\* Retry returns the cancellation cause, under every configuration.
C3_CancelWins == (pc = "done" /\ obs.cancelledFail) => ret = CtxCanceled

\* C4: a Chain step handed a non-nil input of the wrong type ends Retry with
\* the type-mismatch error: the error is not handed to the retryable
\* predicate or the classifier and is not returned as an attempt failure.
C4_MismatchIsFatal ==
    /\ "mismatch" \notin obs.askedRetryable
    /\ "mismatch" \notin obs.classified
    /\ (pc = "done" /\ err.kind = "AttemptError" /\ RootOf(err) = "mismatch")
          => ret = InputMismatch

\* C5: every call whose options pass the validation returns.
C5_Terminates == (pc = "attempt") ~> (pc = "done")

\* C6: on a non-empty pipeline, options with initialBackoff <= 0, maxBackoff <
\* initialBackoff, jitter < 0, or no attempt ceiling together with no
\* elapsed-time ceiling, end Retry with a configuration error before any
\* step, hook or the rate limiter is touched.
Rejected(op) ==
    \/ op.initialBackoff <= 0
    \/ op.maxBackoff < op.initialBackoff
    \/ op.jitter < 0
    \/ (op.maxRetries < 0 /\ op.maxElapsedTime = 0)
Untouched ==
    /\ \A k \in StepIdx : obs.runCount[k] = 0 /\ obs.fnCount[k] = 0
    /\ obs.nAttemptStart = 0 /\ obs.nStepSuccess = 0 /\ obs.nRetry = 0
    /\ obs.nOnFail = 0 /\ obs.nWait = 0 /\ obs.nSleep = 0
C6_ValidationFirst ==
    (Len(steps) > 0 /\ Rejected(o))
        => /\ Untouched
           /\ pc \in {"start", "done"}
           /\ pc = "done" => ret.kind = "config"
C6_Witness ==
    /\ Len(steps) > 0 /\ pc = "done" /\ ret.kind = "config"
    /\ o.initialBackoff > 0 /\ o.maxBackoff >= o.initialBackoff /\ o.jitter >= 0
    /\ o.maxRetries < 0 /\ o.maxElapsedTime = 0 /\ o.rateLimiter

\* C7: with a limit L >= 0 for a class, the failed executions of that class
\* since the counters were last reset never exceed L+1, Retry ends on the
\* limit exactly at the (L+1)-th, and it then returns that wrapped error.
C7_LimitPlusOne ==
    \A c \in DOMAIN o.perErrorLimits :
        LET L == o.perErrorLimits[c]
        IN L >= 0 =>
            /\ obs.failsSince[c] <= L + 1
            /\ (obs.failsSince[c] = L + 1 /\ pc # "failed")
                  => (pc = "done" /\ ret.kind = "AttemptError"
                      /\ NewErrorClass(RootOf(ret)) = c)
            /\ (ev.kind = "limitExceeded" /\ NewErrorClass(RootOf(ret)) = c)
                  => obs.failsSince[c] = L + 1
C7_Witness ==
    /\ ev.kind = "limitExceeded" /\ pc = "done"
    /\ ClassAuth \in DOMAIN o.perErrorLimits /\ o.perErrorLimits[ClassAuth] = 1
    /\ obs.failsSince[ClassAuth] = 2 /\ currentAttempt < o.maxRetries

\* C8: a limit of 1 for a class means a failure of that class is not retried:
\* after the first one Retry returns the error.
C8_LimitOneNoRetry ==
    \A c \in DOMAIN o.perErrorLimits :
        (o.perErrorLimits[c] = 1 /\ obs.failsSince[c] >= 1)
            => /\ obs.failsSince[c] = 1
               \* the last run is that failure
               /\ IsRun(ev) => (ev.kind = "runFailed" /\ NewErrorClass(RootOf(err)) = c)
               /\ (pc = "done" /\ ctxErr = NilErr) => ret = err

\* C9: when the retryable predicate rejects the root cause, Retry returns the
\* wrapped error at once: the per-class counters stay, the retry hook is not
\* invoked, there is no sleep, and nothing runs afterwards.
C9_Rejects ==
    (pc = "failed" /\ RootOf(err) \notin o.retryable)
        => /\ pc' = "done" /\ ret' = err /\ ret'.kind = "AttemptError"
           /\ perErrorCounts' = perErrorCounts
           /\ obs'.nRetry = obs.nRetry /\ obs'.nSleep = obs.nSleep
           /\ obs'.runCount = obs.runCount /\ obs'.classified = obs.classified
C9_NothingAfter == (pc = "done" /\ ev.kind = "nonRetryable") => ~Acted
C9_NonRetryableImmediate == [][C9_Rejects /\ C9_NothingAfter]_vars
\* rejected at the first attempt, with attempts to spare
C9_Witness ==
    /\ pc = "done" /\ ev.kind = "nonRetryable"
    /\ o.maxRetries > 1 /\ currentAttempt = 1 /\ ret.Attempt = 1

\* C10: every AttemptError Retry creates carries Attempt >= 1 and the 1-based
\* index of the failing step.
C10_AttemptErrorFields ==
    \A e \in {err, ret, obs.lastRetry} :
        e.kind = "AttemptError" => (e.Attempt >= 1 /\ e.Step \in StepIdx)

\* C11: in a pipeline with no checkpointed step every attempt starts at step 1
\* with nil input and executes the steps in order, each after the success of
\* the one before it: a step that failed is reached again only through a new
\* execution of every step before it.
NoCheckpoint == \A k \in StepIdx : ~steps[k].checkpoint
C11_FirstIsStepOne ==
    (NoCheckpoint /\ Acted /\ IsRun(ev') /\ ~IsRun(ev))
        => (ev.kind = "attempt" /\ ev'.step = 1 /\ ev'.input = Nil)
C11_InOrder ==
    (NoCheckpoint /\ Acted /\ IsRun(ev') /\ IsRun(ev))
        => (ev.kind = "runOk" /\ ev'.step = ev.step + 1)
C11_WalkFromStart ==
    (NoCheckpoint /\ pc = "walk" /\ ev.kind = "attempt") => (i = 0 /\ prevOutput = Nil)
C11_RestartFromStepOne ==
    [][C11_FirstIsStepOne /\ C11_InOrder]_vars /\ []C11_WalkFromStart
\* step 2 failed, step 1 was executed again and step 2 is reached again
C11_Witness ==
    /\ Len(steps) = 2 /\ NoCheckpoint
    /\ obs.failCount[2] >= 1 /\ obs.runCount[1] = 2 /\ obs.runCount[2] = 2
    /\ IsRun(ev) /\ ev.step = 2

\* C12: in a call that returns nil, with the three hooks set, onAttemptStart
\* was invoked once per attempt (the failed walks plus the last one), onRetry
\* once per failed attempt, so that attempt starts = retries + 1, and
\* onStepSuccess once per successful step execution, with the 1-based index
\* and the output of that execution.  The counts are compared below CountCap.
RECURSIVE SumTo(_, _)
SumTo(f, n) == IF n = 0 THEN 0 ELSE f[n] + SumTo(f, n - 1)
HooksSet == o.onRetry /\ o.onAttemptStart /\ o.onStepSuccess
ExactCounts ==
    /\ obs.nAttemptStart < CountCap /\ obs.nStepSuccess < CountCap
    /\ \A k \in StepIdx : obs.okCount[k] < CountCap /\ obs.failCount[k] < CountCap
HookCounts ==
    /\ obs.nAttemptStart = SumTo(obs.failCount, Len(steps)) + 1
    /\ obs.nRetry = SumTo(obs.failCount, Len(steps))
    /\ obs.nAttemptStart = obs.nRetry + 1
    /\ obs.nStepSuccess = SumTo(obs.okCount, Len(steps))
\* as stated, for every call that returns nil
C12_HooksEveryCall ==
    (pc = "done" /\ ret = NilErr /\ HooksSet /\ ExactCounts) => HookCounts
\* for every call on a non-empty pipeline that returns nil
C12_HooksNonEmpty ==
    /\ (pc = "done" /\ ret = NilErr /\ HooksSet /\ ExactCounts /\ Len(steps) > 0)
          => HookCounts
    /\ (HooksSet /\ ev.kind = "runOk")
          => obs.lastStepSuccess = [step |-> ev.step, out |-> ev.out]
\* nil after a failed attempt, three successful executions
C12_Witness ==
    /\ pc = "done" /\ ret = NilErr /\ HooksSet /\ ExactCounts /\ Len(steps) = 2
    /\ obs.nRetry = 1 /\ obs.nAttemptStart = 2 /\ obs.nStepSuccess = 3
    /\ obs.lastStepSuccess.step = 2

\* C13: no step execution begins while the context is cancelled, and a call
\* that ends on a cancellation seen before a step, in the rate limiter's wait
\* or in the backoff sleep returns the cancellation error itself, not an
\* AttemptError around it.
C13_NoRunWhenCancelled == (Acted /\ IsRun(ev')) => ctxErr = NilErr
C13_Unwrapped ==
    ev.kind \in {"cancelled", "waitCancelled", "sleepCancelled"}
        => (pc = "done" /\ ctxErr = CtxCanceled /\ ret = CtxCanceled)
C13_CancellationUnwrapped == [][C13_NoRunWhenCancelled]_vars /\ []C13_Unwrapped
\* cancelled between step 1 and step 2, after an earlier failed attempt
C13_Witness ==
    /\ ev.kind = "cancelled" /\ pc = "done" /\ ret = CtxCanceled
    /\ Len(steps) = 2 /\ i = 1 /\ obs.runCount[2] = 1 /\ obs.runCount[1] = 2

\* C14: when a step bound with Do returns no error and its value is nil or
\* assignable to the target, the value is written to the target and the walk
\* goes on.
C14_BindsOutput ==
    (/\ IsRun(ev) /\ ev.kind # "runFailed"
     /\ steps[ev.step].ptr \notin {"none", "bad"}
     /\ (ev.out = Nil \/ AssignableTo(ev.out.t, steps[ev.step].ptr)))
        => (ev.kind = "runOk" /\ target[ev.step] = ev.out /\ ret = NilErr)

\* C15: right after a checkpointed step succeeded, checkpoint is the index
\* just past it, currentAttempt is 0, currentBackoff is initialBackoff,
\* lastCheckpointOutput is the step's output and, with
\* resetErrorLimitOnCheckpoint, every per-class counter is 0.
C15_CheckpointState ==
    (ev.kind = "runOk" /\ steps[ev.step].checkpoint)
        => /\ checkpoint = ev.step
           /\ currentAttempt = 0
           /\ currentBackoff = o.initialBackoff
           /\ lastCheckpointOutput = ev.out
           /\ o.resetErrorLimitOnCheckpoint => perErrorCounts = ZeroCounts
\* the checkpointed step succeeds after it failed and a backoff was slept
C15_Witness ==
    /\ ev.kind = "runOk" /\ steps[ev.step].checkpoint /\ o.resetErrorLimitOnCheckpoint
    /\ obs.failCount[ev.step] >= 1 /\ obs.nSleep >= 1 /\ next > o.initialBackoff
    /\ DOMAIN o.perErrorLimits # {} /\ ev.out # Nil

\* C16: checkpoint stays within 0..len(steps) and changes only in the step in
\* which a step marked as checkpoint succeeds, where it grows to the index
\* just past that step.
C16_InRange == checkpoint \in 0..Len(steps)
C16_OnlyAtCheckpoint ==
    checkpoint' # checkpoint
        => /\ Acted /\ ev'.kind = "runOk" /\ steps[ev'.step].checkpoint
           /\ checkpoint' = ev'.step /\ checkpoint' > checkpoint
C16_CheckpointMonotone == []C16_InRange /\ [][C16_OnlyAtCheckpoint]_vars
\* the checkpoint moved to 1, step 2 failed, and it moved on to 2
C16_Witness ==
    /\ Len(steps) = 2 /\ steps[1].checkpoint /\ steps[2].checkpoint
    /\ checkpoint = 2 /\ obs.failCount[2] >= 1 /\ obs.runCount[1] = 1

\* C17: a checkpoint advance leaves the per-class counters as they are when
\* resetErrorLimitOnCheckpoint is false, so that they never go down and the
\* failures before a checkpoint count against the limit after it; when the
\* option is true the advance clears them, and Retry ends on a limit L only
\* with at least L+1 failed executions after the last checkpoint advance.
C17_Advance ==
    (Acted /\ ev'.kind = "runOk" /\ steps[ev'.step].checkpoint)
        => perErrorCounts' = IF o.resetErrorLimitOnCheckpoint THEN ZeroCounts
                             ELSE perErrorCounts
C17_Kept ==
    ~o.resetErrorLimitOnCheckpoint
        => \A c \in Classes : perErrorCounts'[c] >= perErrorCounts[c]
FailedAfterCheckpoint ==
    SumTo(obs.failCount, Len(steps)) - SumTo(obs.failCount, checkpoint)
C17_OnlyAfter ==
    (o.resetErrorLimitOnCheckpoint /\ ev.kind = "limitExceeded")
        => FailedAfterCheckpoint >= o.perErrorLimits[NewErrorClass(RootOf(ret))] + 1
C17_ResetOnCheckpoint == [][C17_Advance /\ C17_Kept]_vars /\ []C17_OnlyAfter
\* without the reset, the limit 1 is exceeded at the first failure after the
\* checkpoint, because of the one before it
C17_Witness ==
    /\ ~o.resetErrorLimitOnCheckpoint /\ ev.kind = "limitExceeded"
    /\ Len(steps) = 2 /\ steps[1].checkpoint /\ checkpoint = 1 /\ ret.Step = 2
    /\ o.perErrorLimits[ClassAuth] = 1 /\ NewErrorClass(RootOf(ret)) = ClassAuth
    /\ obs.failCount[1] = 1 /\ obs.failCount[2] = 1

\* C18: the counter of a class is the number of consecutive failures of that
\* class since the last reset: a counted failure of class k adds one to the
\* counter of k and starts the counter of every other class afresh, so that
\* Retry ends on a limit L only after more than L consecutive failures.
C18_CountedFailure ==
    (pc = "failed" /\ Acted /\ ev'.kind # "nonRetryable")
        => LET k == NewErrorClass(RootOf(err))
           IN /\ perErrorCounts'[k] = Sat(perErrorCounts[k] + 1)
              /\ \A c \in Classes \ {k} : perErrorCounts'[c] = 0
C18_ConsecutiveCount == [][C18_CountedFailure]_vars

\* C19: the input of a step execution is the output of the successful
\* execution of the step before it in the same attempt or, for the first
\* execution of an attempt, the output of the last checkpoint (nil when none
\* was reached); a value returned beside an error is never an input, never
\* written to a target and never handed to onStepSuccess, and a target holds
\* the output of the latest successful execution of its step.
PoisonValues == {Poison(T) : T \in {"int", "string", "any"}}
C19_InputOfRun ==
    (Acted /\ IsRun(ev'))
        => IF IsRun(ev)
           THEN ev.kind = "runOk" /\ ev'.step = ev.step + 1 /\ ev'.input = ev.out
           ELSE /\ ev.kind = "attempt" /\ ev'.step = checkpoint + 1
                /\ ev'.input = lastCheckpointOutput
                /\ ev'.input = IF checkpoint = 0 THEN Nil ELSE obs.outAt[checkpoint]
C19_NoPoison ==
    /\ prevOutput \notin PoisonValues /\ lastCheckpointOutput \notin PoisonValues
    /\ IsRun(ev) => ev.input \notin PoisonValues
    /\ obs.lastStepSuccess.out \notin PoisonValues
    /\ \A k \in StepIdx :
          /\ target[k] \notin PoisonValues
          /\ (steps[k].ptr \notin {"none", "bad"} /\ obs.okCount[k] >= 1
                /\ ~(ev.kind = "runBindFailed" /\ ev.step = k))
                => target[k] = obs.outAt[k]
C19_StepInputs == [][C19_InputOfRun]_vars /\ []C19_NoPoison
\* step 2 failed once; it runs again on the output of the second execution
\* of the step before it, which is no checkpoint
C19_Witness ==
    /\ Len(steps) = 2 /\ ~steps[1].checkpoint /\ steps[1].ptr = "int"
    /\ IsRun(ev) /\ ev.step = 2 /\ obs.runCount[2] = 2 /\ obs.runCount[1] = 2
    /\ obs.failCount[1] = 0 /\ ev.input = IntV(2) /\ target[1] = IntV(2)

\* C20: the time compared with maxElapsedTime runs from the start of the call
\* and no checkpoint advance sets it back: a retryable failure handled when
\* it has reached maxElapsedTime (> 0) ends Retry with the wrapped error, with
\* no sleep and no further attempt.
C20_ClockRuns == elapsed' >= elapsed
C20_StopsAtCeiling ==
    (/\ pc = "failed" /\ RootOf(err) \in o.retryable
     /\ o.maxElapsedTime > 0 /\ elapsed >= o.maxElapsedTime)
        => /\ pc' = "done" /\ ret' = err /\ ret'.kind = "AttemptError"
           /\ obs'.nSleep = obs.nSleep /\ obs'.nAttemptStart = obs.nAttemptStart
           /\ obs'.runCount = obs.runCount
C20_ElapsedCeiling == [][C20_ClockRuns /\ C20_StopsAtCeiling]_vars
\* the ceiling ends the call at the first failure after a checkpoint, with
\* attempts to spare
C20_Witness ==
    /\ ev.kind = "timeExhausted" /\ pc = "done" /\ ret.kind = "AttemptError"
    /\ checkpoint = 1 /\ ret.Step = 2 /\ obs.failCount[2] = 1 /\ obs.nSleep = 0
    /\ o.maxRetries < 0

\* C21: a failed step execution invokes the step's failure callback once when
\* it is set, and nothing else invokes it (no cancellation, no error of the
\* output binding); no step is executed after a failed one in that attempt;
\* the retry hook is invoked only after a failure whose root cause the
\* predicate accepted and whose class limit was not exceeded.
C21_OnFailOnce ==
    Acted => obs'.nOnFail =
                 IF ev'.kind = "runFailed" /\ steps[ev'.step].onFail
                 THEN Sat(obs.nOnFail + 1) ELSE obs.nOnFail
C21_WalkEnds ==
    /\ (Acted /\ ev'.kind = "runFailed") => pc' = "failed"
    /\ (Acted /\ IsRun(ev')) => ev.kind \in {"runOk", "attempt"}
C21_RetryHook ==
    obs'.nRetry # obs.nRetry
        => /\ pc = "failed" /\ ev.kind = "runFailed" /\ obs'.lastRetry = err
           /\ RootOf(err) \in o.retryable
           /\ LET key == NewErrorClass(RootOf(err))
              IN key \in DOMAIN o.perErrorLimits
                     => perErrorCounts'[key] <= o.perErrorLimits[key]
C21_FailureCallback == [][C21_OnFailOnce /\ C21_WalkEnds /\ C21_RetryHook]_vars
\* the first step failed twice, its callback ran twice, step 2 never ran
C21_Witness ==
    /\ Len(steps) = 2 /\ steps[1].onFail /\ ev.kind = "runFailed" /\ ev.step = 1
    /\ obs.failCount[1] = 2 /\ obs.nOnFail = 2 /\ obs.runCount[2] = 0 /\ obs.nRetry = 1

\* C22: the delay carried into the next iteration never exceeds maxBackoff,
\* and the duration slept never exceeds maxBackoff + jitter.
C22_SleepBounded ==
    /\ currentBackoff <= o.maxBackoff
    /\ pc = "sleep" => (next <= o.maxBackoff /\ sleep <= o.maxBackoff + o.jitter)

\* C23: with jitter configured, every backoff sleep lasts at least
\* max(initialBackoff - jitter, 10ms), under each built-in strategy.
C23_SleepFloor ==
    (pc = "sleep" /\ o.jitter > 0) => sleep >= Max(o.initialBackoff - o.jitter, MinSleep)

\* C24: under ConstantBackoff the delay computed before jitter equals
\* initialBackoff at every retry, and so does the delay carried between
\* retries and across checkpoints.
C24_ConstantDelay ==
    (o.backoffStrategy = "Constant" /\ pc \notin {"start", "done"})
        => /\ currentBackoff = o.initialBackoff
           /\ pc = "sleep" => next = o.initialBackoff
\* the third retry, after a checkpoint, with an initialBackoff that is not the
\* 500ms of the strategy
C24_Witness ==
    /\ o.backoffStrategy = "Constant" /\ pc = "sleep" /\ obs.nSleep = 2
    /\ checkpoint = 1 /\ o.initialBackoff = 4 * StrategySeed /\ next = 4 * StrategySeed

\* C25: under ExponentialBackoff the delay before jitter of the first retry
\* equals initialBackoff, and each further retry with no checkpoint in
\* between doubles the delay of the retry before it, capped at maxBackoff.
C25_ExponentialDelay ==
    (o.backoffStrategy = "Exponential" /\ pc = "sleep")
        => /\ obs.nSleep = 0 => next = o.initialBackoff
           /\ (obs.nSleep >= 1 /\ checkpoint = 0)
                 => next = Min(2 * currentBackoff, o.maxBackoff)

\* C26: Retry returns nil on a non-empty pipeline only at the successful
\* execution of the last step; then every step has been executed, the latest
\* execution of each step succeeded and each bound target holds the output of
\* that execution; and a successful execution of the last step always ends
\* Retry with nil, whatever the attempt count and the elapsed time.
C26_NilOnlyAfterWalk ==
    (pc = "done" /\ ret = NilErr /\ Len(steps) > 0)
        => /\ ev.kind = "runOk" /\ ev.step = Len(steps) /\ i = Len(steps)
           /\ \A k \in StepIdx :
                 /\ obs.runCount[k] >= 1 /\ obs.lastRunOk[k]
                 /\ steps[k].ptr # "none" => target[k] = obs.outAt[k]
C26_WalkReturnsNil ==
    (Acted /\ ev'.kind = "runOk" /\ ev'.step = Len(steps))
        => (pc' = "done" /\ ret' = NilErr)
C26_NilReturn == []C26_NilOnlyAfterWalk /\ [][C26_WalkReturnsNil]_vars
\* nil after a failed attempt, with the elapsed-time ceiling reached and a
\* bound target written
C26_Witness ==
    /\ pc = "done" /\ ret = NilErr /\ Len(steps) = 2
    /\ obs.failCount[1] = 1 /\ obs.runCount[1] = 2 /\ steps[2].ptr = "int"
    /\ target[2] = IntV(2)
    /\ o.maxElapsedTime > 0 /\ elapsed >= o.maxElapsedTime

\* C27: on an empty pipeline Retry returns nil at once under every
\* configuration, rejected ones included, with no hook invoked, the rate
\* limiter not consulted and the context not looked at.
C27_EmptyPipeline ==
    Len(steps) = 0
        => /\ pc \in {"start", "done"} /\ Untouched
           /\ pc = "done" => (ret = NilErr /\ ev.kind = "empty")
\* nil under options the validation rejects, with a rate limiter and a
\* cancelled context
C27_Witness ==
    /\ Len(steps) = 0 /\ pc = "done" /\ ret = NilErr
    /\ Rejected(o) /\ o.rateLimiter /\ ctxErr = CtxCanceled

====
